---- MODULE Spec2Model ----
(***************************************************************************)
(* Conversation Session & Context Manager of Symbiote.                     *)
(*                                                                         *)
(* The persistent store (src/db/models.py) is five tables.  Every Session  *)
(* Manager operation (src/db/session_manager.py) runs its repository calls *)
(* (src/db/repository.py) inside one get_session() scope                   *)
(* (src/db/connection.py): the scope commits when the body returns and     *)
(* rolls back when the body or the commit raises.  The engine is created   *)
(* without an isolation level, so transactions run at the store's default, *)
(* READ COMMITTED: a statement sees the committed rows and the rows its    *)
(* own transaction has flushed; a row another transaction has flushed is   *)
(* invisible until that transaction commits.  A row carries in xid the     *)
(* transaction that flushed it, 0 once it is committed.                    *)
(***************************************************************************)
EXTENDS Integers, Sequences, FiniteSets, TLC

\* Bounds of the model: how many rows each autoincrement key may number.
MaxTasks == 2
MaxChats == 2
MaxMessages == 2
MaxAgents == 2
MaxLogs == 1
\* How many times the store may fail a flush or a commit.
MaxFailures == 1
\* The last reading of the clock.
MaxClock == 3

\* The concurrent callers, each running one Session Manager call at a time.
Procs == {1, 2}

\* Python's None for an Optional[str] argument; it is no str value.
None == "<None>"

\* Caller-supplied session ids (session_id: str), the empty string included.
SessionIds == {"", "s1"}
\* A task id that resolves to no Task.
UnknownTaskId == "tX"
\* Message contents.
Contents == {"a", "b"}

\* models.py MessageRole
SYSTEM == "system"
USER == "user"
ASSISTANT == "assistant"
MessageRole == {SYSTEM, USER, ASSISTANT}

\* models.py AgentType (two of its three values are exercised)
DEEPSEEK_R1 == "deepseek-r1"
LLAVA == "llava"
AgentType == {DEEPSEEK_R1, LLAVA}
ModelNames == {"m1", "m2"}

\* An Optional[float] confidence: the empty tuple for None, otherwise the
\* one-element tuple of the value, counted in tenths.
NoConfidence == <<>>
Confidences == {NoConfidence, <<0>>, <<5>>, <<10>>, <<15>>, <<-5>>}

\* models.py TaskStatus
PENDING == "pending"
IN_PROGRESS == "in_progress"
COMPLETED == "completed"
FAILED == "failed"
CANCELLED == "cancelled"
TaskStatus == {PENDING, IN_PROGRESS, COMPLETED, FAILED, CANCELLED}

\* A nullable DateTime column that holds no value (clock readings are >= 0).
Unset == -1

\* str(uuid.uuid4()): a fresh identifier per generated row.  The row's
\* autoincrement key is never reused, so the value generated for the row
\* keyed n is written as the n-th element of a pool of distinct strings.
TaskUuids == <<"t-uuid-1", "t-uuid-2", "t-uuid-3", "t-uuid-4">>
ChatUuids == <<"c-uuid-1", "c-uuid-2", "c-uuid-3", "c-uuid-4">>

VARIABLES
    tasks,        \* rows of table tasks:   [id, external_id, status, completed_at, updated_at, xid]
    chats,        \* rows of table chats:   [id, session_id, task_id, step_count, is_active, created_at, updated_at, xid]
    messages,     \* rows of table messages:[id, chat_id, agent_id, role, content, confidence, created_at, xid]
    agents,       \* rows of table agents:  [id, agent_type, model_name, xid]
    action_logs,  \* rows of table action_logs: [id, message_id]
    nextId,       \* the autoincrement sequences, one per table
    now,          \* the reading of datetime.utcnow at the latest insert
    pc,           \* per caller: where its running call stands
    op,           \* per caller: the call and its arguments
    loc,          \* per caller: the locals of the call (loaded ORM objects)
    last,         \* the call acknowledged last, kept when it was a get_or_create_session that returned normally
    issued,       \* per chat: the {role, content} of each add_*_message that returned normally, in order
    failures      \* how many times the store has failed so far

vars == <<tasks, chats, messages, agents, action_logs, nextId, now, pc, op, loc, last, issued, failures>>

----------------------------------------------------------------------------
\* Visibility under READ COMMITTED.

Committed(rows) == {r \in rows : r.xid = 0}
Visible(p, rows) == {r \in rows : r.xid \in {0, p}}

\* Python truthiness of an Optional[str]: None and "" are both falsy.
Falsy(s) == s = None \/ s = ""

NoOp == [name |-> "none", sid |-> None, tid |-> None, content |-> None,
         agent_type |-> None, model_name |-> None, confidence |-> NoConfidence]
NoLoc == [chat |-> 0, step |-> 0, active |-> FALSE, task |-> 0, agent |-> 0, msg |-> 0,
          flushed_step |-> FALSE, flushed_status |-> FALSE, flushed_active |-> FALSE,
          status |-> None,
          stamp |-> Unset, ret |-> None, outcome |-> "running"]

\* Query.first() on a result set with no ORDER BY: any row of it.
First(rows) == rows

----------------------------------------------------------------------------
\* Repository reads.

\* A slip: the filter on Task.external_id left out
AnyTask(p, external_id) == First(Visible(p, tasks))

TaskRepository_get_by_external_id(p, external_id) ==
    First({t \in Visible(p, tasks) : t.external_id = external_id})

\* A slip: the filter on Chat.session_id left out
AnyChat(p, session_id) == First(Visible(p, chats))

\* A slip: the lookup by session id finds nothing
NoChat(p, session_id) == {}

\* A slip: the lookup skips the chats that are not active
ActiveChatOnly(p, session_id) ==
    First({c \in Visible(p, chats) : c.session_id = session_id /\ c.is_active})

ChatRepository_get_by_session_id(p, session_id) ==
    First({c \in Visible(p, chats) : c.session_id = session_id})

ChatRepository_get_by_id(p, chat_id) ==
    First({c \in Visible(p, chats) : c.id = chat_id})

AgentRepository_get_by_type(p, agent_type) ==
    First({a \in Visible(p, agents) : a.agent_type = agent_type})

----------------------------------------------------------------------------
\* connection.py get_session: the transaction scope.

\* session.rollback(): every row the transaction flushed is discarded.
Rollback(p, rows) == {r \in rows : r.xid # p}

\* session.commit(): every row the transaction flushed becomes committed.
CommitRows(p, rows) == {IF r.xid = p THEN [r EXCEPT !.xid = 0] ELSE r : r \in rows}

\* The call of caller p returns: normally (outcome "ok") with the value ret
\* (a string) or ret_id (a message key), or by raising `outcome`.  The
\* caller holds the result at "done" until it takes it (Ack).
Returns(p, outcome, ret, ret_id) ==
    /\ pc' = [pc EXCEPT ![p] = "done"]
    /\ op' = [op EXCEPT ![p] = [NoOp EXCEPT !.name = op[p].name, !.sid = op[p].sid, !.tid = op[p].tid]]
    /\ loc' = [loc EXCEPT ![p] = [NoLoc EXCEPT !.outcome = outcome, !.ret = ret, !.msg = ret_id,
                                               !.task = loc[p].task]]
    /\ UNCHANGED last

\* The same for a call that returns from its first statement.
ReturnsAtOnce(p, call, outcome, ret, ret_id) ==
    /\ pc' = [pc EXCEPT ![p] = "done"]
    /\ op' = [op EXCEPT ![p] = [NoOp EXCEPT !.name = call.name, !.sid = call.sid, !.tid = call.tid]]
    /\ loc' = [loc EXCEPT ![p] = [NoLoc EXCEPT !.outcome = outcome, !.ret = ret, !.msg = ret_id]]
    /\ UNCHANGED last

NoCall == [name |-> "none", sid |-> None, ret |-> None]

\* The caller takes the result of its call and is free for the next one.
Ack(p) ==
    /\ pc[p] = "done"
    /\ pc' = [pc EXCEPT ![p] = "idle"]
    /\ op' = [op EXCEPT ![p] = NoOp]
    /\ loc' = [loc EXCEPT ![p] = NoLoc]
    /\ last' = IF op[p].name = "get_or_create_session" /\ loc[p].outcome = "ok"
               THEN [name |-> op[p].name, sid |-> op[p].sid, ret |-> loc[p].ret]
               ELSE NoCall
    /\ UNCHANGED <<tasks, chats, messages, agents, action_logs, nextId, now, issued, failures>>

\* A slip: the scope rolls back and swallows the error
RaiseSwallowed(p, outcome) ==
    /\ tasks' = Rollback(p, tasks)
    /\ chats' = Rollback(p, chats)
    /\ messages' = Rollback(p, messages)
    /\ agents' = Rollback(p, agents)
    /\ Returns(p, "ok", None, 0)
    /\ UNCHANGED <<action_logs, issued>>

\* except Exception: session.rollback(); raise
Raise(p, outcome) ==
    /\ tasks' = Rollback(p, tasks)
    /\ chats' = Rollback(p, chats)
    /\ messages' = Rollback(p, messages)
    /\ agents' = Rollback(p, agents)
    /\ Returns(p, outcome, None, 0)
    /\ UNCHANGED <<action_logs, issued>>

\* Rows numbered so far, and calls in flight that may still insert one.
Used(table) == nextId[table] - 1
Inserting(states) == Cardinality({q \in Procs : pc[q] \in states})

\* Session ids a caller may pass: any string, and the ids earlier calls returned.
SidArgs == SessionIds \cup {c.session_id : c \in Committed(chats)}
\* Task ids a caller may pass: the ids create_task returned, and an unknown one.
TidArgs == {t.external_id : t \in Committed(tasks)} \cup {UnknownTaskId}

----------------------------------------------------------------------------
\* session_manager.py add_system_message / add_user_message /
\* add_assistant_message: the first statement, the session lookup.

BeginAdd(p, call, next_pc, max_messages) ==
    /\ pc[p] = "idle"
    /\ LET chat == ChatRepository_get_by_session_id(p, call.sid) IN
       IF chat = {}
       THEN \* raise ValueError("Session not found")
            /\ ReturnsAtOnce(p, call, "SessionNotFound", None, 0)
            /\ UNCHANGED <<tasks, chats, messages, agents, action_logs, nextId, now, issued, failures>>
       ELSE /\ Used("message") + Inserting({"agent", "msg"}) < max_messages
            /\ \E c \in chat :
                 /\ pc' = [pc EXCEPT ![p] = next_pc]
                 /\ op' = [op EXCEPT ![p] = call]
                 /\ loc' = [loc EXCEPT ![p] = [NoLoc EXCEPT !.chat = c.id, !.step = c.step_count]]
            /\ UNCHANGED <<tasks, chats, messages, agents, action_logs, nextId, now, last, issued, failures>>

add_system_message(p) ==
    \E sid \in SidArgs, content \in Contents :
        BeginAdd(p, [NoOp EXCEPT !.name = "add_system_message", !.sid = sid,
                                 !.content = content], "msg", MaxMessages)

add_user_message(p) ==
    \E sid \in SidArgs, content \in Contents :
        BeginAdd(p, [NoOp EXCEPT !.name = "add_user_message", !.sid = sid,
                                 !.content = content], "msg", MaxMessages)

\* add_assistant_message with a content of `contents` and a confidence of
\* `confidences`, while the messages table holds fewer than max_messages
\* rows
AddAssistantMessage(p, max_messages, contents, confidences) ==
    \E sid \in SidArgs, content \in contents, agent_type \in AgentType, model_name \in ModelNames,
       confidence \in confidences :
        /\ Used("agent") + Inserting({"agent"}) < MaxAgents
           \/ AgentRepository_get_by_type(p, agent_type) # {}
        /\ BeginAdd(p, [NoOp EXCEPT !.name = "add_assistant_message", !.sid = sid,
                                    !.content = content, !.agent_type = agent_type,
                                    !.model_name = model_name, !.confidence = confidence],
                    "agent", max_messages)

\* add_assistant_message with confidence left at its default, None
add_assistant_message(p) == AddAssistantMessage(p, MaxMessages, Contents, {NoConfidence})

\* A slip: the message is created without agent_id=agent.id
AgentNotLinked(p) ==
    /\ pc[p] = "agent"
    /\ pc' = [pc EXCEPT ![p] = "msg"]
    /\ UNCHANGED <<tasks, chats, messages, agents, action_logs, nextId, now, op, loc, last,
                   issued, failures>>

\* repository.py AgentRepository.get_or_create (and create)
AgentRepository_get_or_create(p) ==
    /\ pc[p] = "agent"
    /\ LET agent == AgentRepository_get_by_type(p, op[p].agent_type) IN
       IF agent # {}
       THEN /\ \E a \in agent : loc' = [loc EXCEPT ![p].agent = a.id]
            /\ UNCHANGED <<agents, nextId>>
       ELSE /\ agents' = agents \cup {[id |-> nextId.agent, agent_type |-> op[p].agent_type,
                                       model_name |-> op[p].model_name, xid |-> p]}
            /\ nextId' = [nextId EXCEPT !.agent = @ + 1]
            /\ loc' = [loc EXCEPT ![p].agent = nextId.agent]
    /\ pc' = [pc EXCEPT ![p] = "msg"]
    /\ UNCHANGED <<tasks, chats, messages, action_logs, now, op, last, issued, failures>>

\* A slip: every append increments step_count
EveryAppendIncrements(name) == TRUE

\* add_assistant_message alone goes on to increment_step_count (line 243)
Increments(name) == name = "add_assistant_message"

RoleOf(name) ==
    CASE name = "add_system_message" -> SYSTEM
      [] name = "add_user_message" -> USER
      [] name = "add_assistant_message" -> ASSISTANT

\* repository.py MessageRepository.create; models.py Message.created_at
\* defaults to datetime.utcnow, read when the row is inserted.
MessageRepository_create(p) ==
    /\ pc[p] = "msg"
    /\ IF \A c \in Committed(chats) : c.id # loc[p].chat
       THEN \* the chat row is gone: messages.chat_id violates its foreign key
            /\ Raise(p, "IntegrityError")
            /\ UNCHANGED <<nextId, now, failures>>
       ELSE /\ messages' = messages \cup
                      {[id |-> nextId.message, chat_id |-> loc[p].chat,
                        agent_id |-> loc[p].agent, role |-> RoleOf(op[p].name),
                        content |-> op[p].content, confidence |-> op[p].confidence,
                        created_at |-> now, xid |-> p]}
            /\ nextId' = [nextId EXCEPT !.message = @ + 1]
            /\ loc' = [loc EXCEPT ![p].msg = nextId.message]
            /\ pc' = [pc EXCEPT ![p] = IF Increments(op[p].name) THEN "incr" ELSE "commit"]
            /\ UNCHANGED <<tasks, chats, agents, action_logs, now, op, last, issued, failures>>

\* Transaction q holds an uncommitted UPDATE of the chat row
ChatUpdatePending(q, chat_id) ==
    (loc[q].flushed_step \/ loc[q].flushed_active) /\ loc[q].chat = chat_id

\* A slip: step_count = 1 in place of step_count += 1
StepCountSetToOne(p) == 1

\* The value chat.step_count += 1 writes: the attribute as the ORM loaded it
\* in the session lookup, plus one (get_by_id returns the object already in
\* the identity map; its loaded attributes are not refreshed).
IncrementedStepCount(p) == loc[p].step + 1

\* repository.py ChatRepository.increment_step_count.  flush() sends
\* UPDATE chats SET step_count=<value> WHERE id=<chat_id>, which waits
\* while another transaction holds an uncommitted update of the row.
ChatRepository_increment_step_count(p) ==
    /\ pc[p] = "incr"
    /\ \A q \in Procs \ {p} : ~ChatUpdatePending(q, loc[p].chat)
    /\ loc' = [loc EXCEPT ![p].step = IncrementedStepCount(p), ![p].flushed_step = TRUE,
                           ![p].stamp = now]
    /\ pc' = [pc EXCEPT ![p] = "commit"]
    /\ UNCHANGED <<tasks, chats, messages, agents, action_logs, nextId, now, op, last, issued, failures>>

----------------------------------------------------------------------------
\* session_manager.py create_task, create_session, get_or_create_session.

\* str(uuid.uuid4()) for the row about to be numbered n
uuid4(pool, n) == pool[n]

\* A slip: the task is created already IN_PROGRESS
NewTaskInProgress(p) ==
    [id |-> nextId.task, external_id |-> uuid4(TaskUuids, nextId.task), status |-> IN_PROGRESS,
     completed_at |-> Unset, updated_at |-> now, xid |-> p]

\* A slip: TaskRepository.create commits the row itself
NewTaskCommitted(p) ==
    [id |-> nextId.task, external_id |-> uuid4(TaskUuids, nextId.task), status |-> PENDING,
     completed_at |-> Unset, updated_at |-> now, xid |-> 0]

\* repository.py TaskRepository.create: a row with a generated external_id
NewTask(p) ==
    [id |-> nextId.task, external_id |-> uuid4(TaskUuids, nextId.task), status |-> PENDING,
     completed_at |-> Unset, updated_at |-> now, xid |-> p]

create_task(p) ==
    /\ pc[p] = "idle"
    /\ Used("task") + Inserting({"task"}) < MaxTasks
    /\ tasks' = tasks \cup {NewTask(p)}
    /\ nextId' = [nextId EXCEPT !.task = @ + 1]
    /\ pc' = [pc EXCEPT ![p] = "commit"]
    /\ op' = [op EXCEPT ![p] = [NoOp EXCEPT !.name = "create_task"]]
    /\ loc' = [loc EXCEPT ![p] = [NoLoc EXCEPT !.task = nextId.task,
                                               !.ret = uuid4(TaskUuids, nextId.task)]]
    /\ UNCHANGED <<chats, messages, agents, action_logs, now, last, issued, failures>>

create_session(p) ==
    /\ pc[p] = "idle"
    /\ \E tid \in TidArgs, sid \in SessionIds \cup {None} :
         LET call == [NoOp EXCEPT !.name = "create_session", !.sid = sid, !.tid = tid]
             task == TaskRepository_get_by_external_id(p, tid) IN
         IF task = {}
         THEN \* raise ValueError("Task not found")
              /\ ReturnsAtOnce(p, call, "TaskNotFound", None, 0)
              /\ UNCHANGED <<tasks, chats, messages, agents, action_logs, nextId, now, issued, failures>>
         ELSE /\ Used("chat") + Inserting({"task", "chat"}) < MaxChats
              /\ \E t \in task :
                   /\ pc' = [pc EXCEPT ![p] = "chat"]
                   /\ op' = [op EXCEPT ![p] = call]
                   /\ loc' = [loc EXCEPT ![p] = [NoLoc EXCEPT !.task = t.id]]
              /\ UNCHANGED <<tasks, chats, messages, agents, action_logs, nextId, now, last, issued, failures>>

get_or_create_session(p) ==
    /\ pc[p] = "idle"
    /\ \E sid \in SidArgs, tid \in TidArgs :
         LET call == [NoOp EXCEPT !.name = "get_or_create_session", !.sid = sid, !.tid = tid]
             chat == ChatRepository_get_by_session_id(p, sid) IN
         IF chat # {}
         THEN \* return chat.session_id; the scope commits nothing
              /\ \E c \in chat : ReturnsAtOnce(p, call, "ok", c.session_id, 0)
              /\ UNCHANGED <<tasks, chats, messages, agents, action_logs, nextId, now, issued, failures>>
         ELSE /\ Used("chat") + Inserting({"task", "chat"}) < MaxChats
              /\ Used("task") + Inserting({"task"}) < MaxTasks
                 \/ TaskRepository_get_by_external_id(p, tid) # {}
              /\ pc' = [pc EXCEPT ![p] = "task"]
              /\ op' = [op EXCEPT ![p] = call]
              /\ UNCHANGED <<tasks, chats, messages, agents, action_logs, nextId, now, loc, last, issued, failures>>

\* A slip: the task created on the fly takes task_id as its external_id
PlaceholderNamedByTaskId(p) ==
    /\ pc[p] = "task"
    /\ LET task == TaskRepository_get_by_external_id(p, op[p].tid) IN
       IF task # {}
       THEN /\ \E t \in task : loc' = [loc EXCEPT ![p].task = t.id]
            /\ UNCHANGED <<tasks, nextId>>
       ELSE /\ tasks' = tasks \cup {[NewTask(p) EXCEPT !.external_id = op[p].tid]}
            /\ nextId' = [nextId EXCEPT !.task = @ + 1]
            /\ loc' = [loc EXCEPT ![p].task = nextId.task]
    /\ pc' = [pc EXCEPT ![p] = "chat"]
    /\ UNCHANGED <<chats, messages, agents, action_logs, now, op, last, issued, failures>>

\* A slip: the task created on the fly is committed at once
PlaceholderCommittedAtOnce(p) ==
    /\ pc[p] = "task"
    /\ LET task == TaskRepository_get_by_external_id(p, op[p].tid) IN
       IF task # {}
       THEN /\ \E t \in task : loc' = [loc EXCEPT ![p].task = t.id]
            /\ UNCHANGED <<tasks, nextId>>
       ELSE /\ tasks' = tasks \cup {[NewTask(p) EXCEPT !.xid = 0]}
            /\ nextId' = [nextId EXCEPT !.task = @ + 1]
            /\ loc' = [loc EXCEPT ![p].task = nextId.task]
    /\ pc' = [pc EXCEPT ![p] = "chat"]
    /\ UNCHANGED <<chats, messages, agents, action_logs, now, op, last, issued, failures>>

\* get_or_create_session, lines 144-151: resolve the task or create one on the fly
ResolveOrCreateTask(p) ==
    /\ pc[p] = "task"
    /\ LET task == TaskRepository_get_by_external_id(p, op[p].tid) IN
       IF task # {}
       THEN /\ \E t \in task : loc' = [loc EXCEPT ![p].task = t.id]
            /\ UNCHANGED <<tasks, nextId>>
       ELSE /\ tasks' = tasks \cup {NewTask(p)}
            /\ nextId' = [nextId EXCEPT !.task = @ + 1]
            /\ loc' = [loc EXCEPT ![p].task = nextId.task]
    /\ pc' = [pc EXCEPT ![p] = "chat"]
    /\ UNCHANGED <<chats, messages, agents, action_logs, now, op, last, issued, failures>>

\* A slip: the supplied session_id dropped, an id always generated
AlwaysGenerated(session_id, n) == uuid4(ChatUuids, n)

\* ChatRepository.create line 161: session_id or str(uuid.uuid4())
ChatSessionId(session_id, n) == IF Falsy(session_id) THEN uuid4(ChatUuids, n) ELSE session_id

\* A slip: the chat is created inactive
ChatCreatedInactive(p) ==
    /\ pc[p] = "chat"
    /\ LET sid == ChatSessionId(op[p].sid, nextId.chat) IN
       /\ \A c \in chats : c.session_id = sid => c.xid \in {0, p}
       /\ nextId' = [nextId EXCEPT !.chat = @ + 1]
       /\ IF \/ \A t \in Visible(p, tasks) : t.id # loc[p].task
             \/ \E c \in Visible(p, chats) : c.session_id = sid
          THEN Raise(p, "IntegrityError")
          ELSE /\ chats' = chats \cup {[id |-> nextId.chat, session_id |-> sid,
                                        task_id |-> loc[p].task, step_count |-> 0,
                                        is_active |-> FALSE, created_at |-> now,
                                        updated_at |-> now, xid |-> p]}
               /\ loc' = [loc EXCEPT ![p].chat = nextId.chat, ![p].ret = sid]
               /\ pc' = [pc EXCEPT ![p] = "commit"]
               /\ UNCHANGED <<tasks, messages, agents, action_logs, op, last, issued>>
    /\ UNCHANGED <<now, failures>>

\* A slip: the insert does not check the uniqueness of session_id
ChatCreatedUnchecked(p) ==
    /\ pc[p] = "chat"
    /\ LET sid == ChatSessionId(op[p].sid, nextId.chat) IN
       /\ nextId' = [nextId EXCEPT !.chat = @ + 1]
       /\ IF \A t \in Visible(p, tasks) : t.id # loc[p].task
          THEN Raise(p, "IntegrityError")
          ELSE /\ chats' = chats \cup {[id |-> nextId.chat, session_id |-> sid,
                                        task_id |-> loc[p].task, step_count |-> 0,
                                        is_active |-> TRUE, created_at |-> now,
                                        updated_at |-> now, xid |-> p]}
               /\ loc' = [loc EXCEPT ![p].chat = nextId.chat, ![p].ret = sid]
               /\ pc' = [pc EXCEPT ![p] = "commit"]
               /\ UNCHANGED <<tasks, messages, agents, action_logs, op, last, issued>>
    /\ UNCHANGED <<now, failures>>

\* repository.py ChatRepository.create.  The INSERT draws the next key, then
\* checks chats.task_id's foreign key and the unique index on session_id; it
\* waits while another transaction holds an uncommitted row with that
\* session_id.
ChatRepository_create(p) ==
    /\ pc[p] = "chat"
    /\ LET sid == ChatSessionId(op[p].sid, nextId.chat) IN
       /\ \A c \in chats : c.session_id = sid => c.xid \in {0, p}
       /\ nextId' = [nextId EXCEPT !.chat = @ + 1]
       /\ IF \/ \A t \in Visible(p, tasks) : t.id # loc[p].task
             \/ \E c \in Visible(p, chats) : c.session_id = sid
          THEN Raise(p, "IntegrityError")
          ELSE /\ chats' = chats \cup {[id |-> nextId.chat, session_id |-> sid,
                                        task_id |-> loc[p].task, step_count |-> 0,
                                        is_active |-> TRUE, created_at |-> now,
                                        updated_at |-> now, xid |-> p]}
               /\ loc' = [loc EXCEPT ![p].chat = nextId.chat, ![p].ret = sid]
               /\ pc' = [pc EXCEPT ![p] = "commit"]
               /\ UNCHANGED <<tasks, messages, agents, action_logs, op, last, issued>>
    /\ UNCHANGED <<now, failures>>

\* session_manager.py update_task_status with a status of `statuses`: the
\* lookup by external id
UpdateTaskStatus(p, statuses) ==
    /\ pc[p] = "idle"
    /\ \E tid \in TidArgs, status \in statuses :
         LET call == [NoOp EXCEPT !.name = "update_task_status", !.tid = tid]
             task == TaskRepository_get_by_external_id(p, tid) IN
         IF task = {}
         THEN \* return False
              ReturnsAtOnce(p, call, "ok", "False", 0)
         ELSE /\ \E t \in task :
                   /\ pc' = [pc EXCEPT ![p] = "status"]
                   /\ op' = [op EXCEPT ![p] = call]
                   /\ loc' = [loc EXCEPT ![p] = [NoLoc EXCEPT !.task = t.id, !.status = status]]
              /\ UNCHANGED last
    /\ UNCHANGED <<tasks, chats, messages, agents, action_logs, nextId, now, issued, failures>>

update_task_status(p) == UpdateTaskStatus(p, TaskStatus)

\* repository.py TaskRepository.update_status.  flush() sends UPDATE tasks
\* SET status=..., [completed_at=...,] updated_at=... WHERE id=<task_id>,
\* which waits while another transaction holds an uncommitted update of
\* the row; when get_by_id finds no row, nothing is written.  The caller,
\* update_task_status, returns True either way.
TaskRepository_update_status(p) ==
    /\ pc[p] = "status"
    /\ \A q \in Procs \ {p} : ~(loc[q].flushed_status /\ loc[q].task = loc[p].task)
    /\ loc' = [loc EXCEPT ![p].flushed_status = \E t \in Committed(tasks) : t.id = loc[p].task,
                           ![p].stamp = now, ![p].ret = "True"]
    /\ pc' = [pc EXCEPT ![p] = "commit"]
    /\ UNCHANGED <<tasks, chats, messages, agents, action_logs, nextId, now, op, last, issued, failures>>

\* A slip: completed_at stamped on every status update
StampedOnEveryUpdate(t, status, stamp) ==
    [t EXCEPT !.status = status, !.completed_at = stamp, !.updated_at = stamp]

\* A slip: a task in a final status keeps it
FinalStatusKept(t, status, stamp) ==
    IF t.status \in {COMPLETED, FAILED, CANCELLED} THEN t
    ELSE [t EXCEPT !.status = status,
                   !.completed_at = IF status = COMPLETED THEN stamp ELSE @,
                   !.updated_at = stamp]

\* update_status, lines 120-123: the new values of the row's columns.
\* updated_at has onupdate=datetime.utcnow: it is stamped when the UPDATE
\* changes the row.
UpdatedTask(t, status, stamp) ==
    LET new == [t EXCEPT !.status = status,
                         !.completed_at = IF status = COMPLETED THEN stamp ELSE @] IN
    IF new = t THEN t ELSE [new EXCEPT !.updated_at = stamp]

\* The UPDATE of a task the transaction flushed, applied at commit.
CommitStatus(p, rows) ==
    {IF loc[p].flushed_status /\ r.id = loc[p].task
     THEN UpdatedTask(r, loc[p].status, loc[p].stamp) ELSE r : r \in rows}

----------------------------------------------------------------------------
\* connection.py get_session, lines 79-87: the end of the scope.

IsAdd(name) == name \in {"add_system_message", "add_user_message", "add_assistant_message"}

\* A slip: the UPDATE of step_count has no WHERE clause
CommitStepOfEveryChat(p, rows) ==
    {IF loc[p].flushed_step
     THEN [r EXCEPT !.step_count = loc[p].step, !.updated_at = loc[p].stamp] ELSE r : r \in rows}

\* The UPDATE of step_count the transaction flushed, applied at commit.
CommitStep(p, rows) ==
    {IF loc[p].flushed_step /\ r.id = loc[p].chat
     THEN [r EXCEPT !.step_count = loc[p].step, !.updated_at = loc[p].stamp] ELSE r : r \in rows}

\* A slip: deactivation resets the chat, step_count included
DeactivatedAndReset(c, stamp) ==
    [c EXCEPT !.is_active = FALSE, !.step_count = 0, !.updated_at = stamp]

\* deactivate, line 218: the new values of the row's columns (updated_at
\* has onupdate=datetime.utcnow)
DeactivatedChat(c, stamp) == [c EXCEPT !.is_active = FALSE, !.updated_at = stamp]

\* The UPDATE of is_active the transaction flushed, applied at commit.
CommitActive(p, rows) ==
    {IF loc[p].flushed_active /\ r.id = loc[p].chat
     THEN DeactivatedChat(r, loc[p].stamp) ELSE r : r \in rows}

\* session.commit() succeeds
Commit(p) ==
    /\ pc[p] = "commit"
    /\ op[p].name # "delete_task"
    /\ tasks' = CommitStatus(p, CommitRows(p, tasks))
    /\ chats' = CommitActive(p, CommitStep(p, CommitRows(p, chats)))
    /\ messages' = CommitRows(p, messages)
    /\ agents' = CommitRows(p, agents)
    /\ issued' = IF IsAdd(op[p].name)
                 THEN [issued EXCEPT ![loc[p].chat] =
                         Append(@, [role |-> RoleOf(op[p].name), content |-> op[p].content])]
                 ELSE issued
    /\ Returns(p, "ok", loc[p].ret, loc[p].msg)
    /\ UNCHANGED <<action_logs, nextId, now, failures>>

\* The store fails the flush of increment_step_count or the commit
StorageFailure(p) ==
    /\ pc[p] \in {"incr", "commit"}
    /\ failures < MaxFailures
    /\ failures' = failures + 1
    /\ Raise(p, "StorageFailure")
    /\ UNCHANGED <<nextId, now>>

----------------------------------------------------------------------------
\* Repository operations the Session Manager does not wrap; each runs in a
\* scope of its caller, taken here as one step.

ChatsOf(task_id) == {c \in chats : c.task_id = task_id}
\* A slip: the cascade takes the messages of every chat
MessagesOfAnyChat(chat_ids) == messages

MessagesOf(chat_ids) == {m \in messages : m.chat_id \in chat_ids}

\* A transaction in flight holds a lock on a row of the task's subtree: a
\* flushed chat or message referencing it, or a flushed step_count update.
Locked(task_id) ==
    LET ids == {c.id : c \in ChatsOf(task_id)} IN
    \/ \E c \in ChatsOf(task_id) : c.xid # 0
    \/ \E m \in MessagesOf(ids) : m.xid # 0
    \/ \E q \in Procs, c \in ids : ChatUpdatePending(q, c)
    \/ \E q \in Procs : loc[q].flushed_status /\ loc[q].task = task_id

\* repository.py TaskRepository.delete, in a scope of its caller.
\* session.delete(task) only marks the task; nothing is sent to the store
\* before the scope's commit.
delete_task(p) ==
    /\ pc[p] = "idle"
    /\ \E task_id \in 1..MaxTasks :
         LET call == [NoOp EXCEPT !.name = "delete_task"] IN
         IF \A t \in Committed(tasks) : t.id # task_id
         THEN ReturnsAtOnce(p, call, "ok", "False", 0)
         ELSE /\ pc' = [pc EXCEPT ![p] = "commit"]
              /\ op' = [op EXCEPT ![p] = call]
              /\ loc' = [loc EXCEPT ![p] = [NoLoc EXCEPT !.task = task_id, !.ret = "True"]]
              /\ UNCHANGED last
    /\ UNCHANGED <<tasks, chats, messages, agents, action_logs, nextId, now, issued, failures>>

\* A slip: the cascade goes on from the deleted messages to their agents
CommitDeleteWithAgents(p) ==
    /\ pc[p] = "commit"
    /\ op[p].name = "delete_task"
    /\ ~Locked(loc[p].task)
    /\ LET ids == {c.id : c \in ChatsOf(loc[p].task)}
           mids == {m.id : m \in MessagesOf(ids)} IN
       IF \E a \in action_logs : a.message_id \in mids
       THEN /\ Raise(p, "IntegrityError")
       ELSE /\ tasks' = {t \in tasks : t.id # loc[p].task}
            /\ chats' = chats \ ChatsOf(loc[p].task)
            /\ messages' = messages \ MessagesOf(ids)
            /\ agents' = {a \in agents : \A m \in MessagesOf(ids) : m.agent_id # a.id}
            /\ issued' = [c \in DOMAIN issued |-> IF c \in ids THEN <<>> ELSE issued[c]]
            /\ Returns(p, "ok", loc[p].ret, 0)
            /\ UNCHANGED action_logs
    /\ UNCHANGED <<nextId, now, failures>>

\* The commit of that scope.  The flush cascades over Task.chats and
\* Chat.messages (cascade="all, delete-orphan"); ActionLog rows are on no
\* cascade, and action_logs.message_id is a foreign key, so the DELETE of a
\* message that has action logs raises IntegrityError.
CommitDelete(p) ==
    /\ pc[p] = "commit"
    /\ op[p].name = "delete_task"
    /\ ~Locked(loc[p].task)
    /\ LET ids == {c.id : c \in ChatsOf(loc[p].task)}
           mids == {m.id : m \in MessagesOf(ids)} IN
       IF \E a \in action_logs : a.message_id \in mids
       THEN /\ Raise(p, "IntegrityError")
       ELSE /\ tasks' = {t \in tasks : t.id # loc[p].task}
            /\ chats' = chats \ ChatsOf(loc[p].task)
            /\ messages' = messages \ MessagesOf(ids)
            /\ issued' = [c \in DOMAIN issued |-> IF c \in ids THEN <<>> ELSE issued[c]]
            /\ Returns(p, "ok", loc[p].ret, 0)
            /\ UNCHANGED <<agents, action_logs>>
    /\ UNCHANGED <<nextId, now, failures>>

\* repository.py ChatRepository.deactivate, in a scope of its caller: the
\* lookup by key.
deactivate(p) ==
    /\ pc[p] = "idle"
    /\ \E chat_id \in 1..MaxChats :
         LET call == [NoOp EXCEPT !.name = "deactivate"]
             chat == ChatRepository_get_by_id(p, chat_id) IN
         IF chat = {}
         THEN \* return None
              ReturnsAtOnce(p, call, "ok", None, 0)
         ELSE /\ \E c \in chat :
                   /\ pc' = [pc EXCEPT ![p] = "deactivate"]
                   /\ op' = [op EXCEPT ![p] = call]
                   /\ loc' = [loc EXCEPT ![p] = [NoLoc EXCEPT !.chat = c.id,
                                                              !.active = c.is_active]]
              /\ UNCHANGED last
    /\ UNCHANGED <<tasks, chats, messages, agents, action_logs, nextId, now, issued, failures>>

\* deactivate, lines 218-219: chat.is_active = False; session.flush().  The
\* flush sends UPDATE chats SET is_active=false, updated_at=... WHERE
\* id=<chat_id> when the attribute changed, and waits while another
\* transaction holds an uncommitted update of the row; it raises
\* StaleDataError when the row is gone.
ChatRepository_deactivate(p) ==
    /\ pc[p] = "deactivate"
    /\ IF ~loc[p].active
       THEN \* the chat was inactive already: nothing to flush
            /\ loc' = [loc EXCEPT ![p].ret = "chat"]
            /\ pc' = [pc EXCEPT ![p] = "commit"]
            /\ UNCHANGED <<tasks, chats, messages, agents, action_logs, op, last, issued>>
       ELSE /\ \A q \in Procs \ {p} : ~ChatUpdatePending(q, loc[p].chat)
            /\ IF \A c \in Committed(chats) : c.id # loc[p].chat
               THEN Raise(p, "StaleDataError")
               ELSE /\ loc' = [loc EXCEPT ![p].flushed_active = TRUE, ![p].stamp = now,
                                           ![p].ret = "chat"]
                    /\ pc' = [pc EXCEPT ![p] = "commit"]
                    /\ UNCHANGED <<tasks, chats, messages, agents, action_logs, op, last, issued>>
    /\ UNCHANGED <<nextId, now, failures>>

\* repository.py ActionLogRepository.create, then the scope's commit
ActionLogRepository_create(message_id) ==
    /\ Used("log") < MaxLogs
    /\ \E m \in Committed(messages) : m.id = message_id
    /\ action_logs' = action_logs \cup {[id |-> nextId.log, message_id |-> message_id]}
    /\ nextId' = [nextId EXCEPT !.log = @ + 1]
    /\ UNCHANGED <<tasks, chats, messages, agents, now, pc, op, loc, last, issued, failures>>

----------------------------------------------------------------------------
\* The read calls, each in a scope of its own with nothing flushed: they see
\* the committed rows.  A read whose result the store leaves open (rows
\* that tie in an ORDER BY) is the set of results it may return.

AsSet(seq) == {seq[i] : i \in DOMAIN seq}

\* The sequences that list every row of `rows` once by ascending created_at.
\* ORDER BY created_at names no second key: rows with equal created_at come
\* in whatever order the store produces.
OrderByCreatedAt(rows) ==
    {f \in [1..Cardinality(rows) -> rows] :
        /\ AsSet(f) = rows
        /\ \A i, j \in DOMAIN f : i < j => f[i].created_at <= f[j].created_at}

\* repository.py MessageRepository.list_by_chat
MessageRepository_list_by_chat(chat_id) ==
    OrderByCreatedAt({m \in Committed(messages) : m.chat_id = chat_id})

\* get_context_messages, lines 290-293: one {role, content} per message
ContextEntry(msg) == [role |-> msg.role, content |-> msg.content]

RECURSIVE BuildContext(_, _)
\* get_context_messages, lines 285-295: the loop over the messages
BuildContext(msgs, include_system) ==
    IF msgs = <<>> THEN <<>>
    ELSE IF ~include_system /\ Head(msgs).role = SYSTEM
         THEN BuildContext(Tail(msgs), include_system)
         ELSE <<ContextEntry(Head(msgs))>> \o BuildContext(Tail(msgs), include_system)

\* repository.py MessageRepository.get_context_messages
MessageRepository_get_context_messages(chat_id, include_system) ==
    {BuildContext(msgs, include_system) : msgs \in MessageRepository_list_by_chat(chat_id)}

\* A slip: the lookup of the chat by session id left out
ContextOfEveryChat(session_id, include_system) ==
    UNION {MessageRepository_get_context_messages(c.id, include_system) : c \in Committed(chats)}

\* session_manager.py get_context
get_context(session_id, include_system) ==
    LET chat == {c \in Committed(chats) : c.session_id = session_id} IN
    IF chat = {} THEN {<<>>}
    ELSE UNION {MessageRepository_get_context_messages(c.id, include_system) : c \in chat}

\* A slip: an unknown session is told apart by a count of -1
StepCountOrMinusOne(session_id) ==
    LET chat == {c \in Committed(chats) : c.session_id = session_id} IN
    IF chat = {} THEN {-1} ELSE {c.step_count : c \in chat}

\* session_manager.py get_step_count
get_step_count(session_id) ==
    LET chat == {c \in Committed(chats) : c.session_id = session_id} IN
    IF chat = {} THEN {0} ELSE {c.step_count : c \in chat}

\* The sequences that list every row of `rows` once, in any order: a query
\* or a relationship with no ORDER BY.
AnyOrder(rows) == {f \in [1..Cardinality(rows) -> rows] : AsSet(f) = rows}

\* repository.py ChatRepository.list_by_task: ORDER BY created_at DESC
ChatRepository_list_by_task(task_id) ==
    {f \in AnyOrder({c \in Committed(chats) : c.task_id = task_id}) :
        \A i, j \in DOMAIN f : i < j => f[i].created_at >= f[j].created_at}

\* session_manager.py get_task
get_task(task_id) ==
    LET task == {t \in Committed(tasks) : t.external_id = task_id} IN
    IF task = {} THEN {None}
    ELSE {[id |-> t.external_id, status |-> t.status, updated_at |-> t.updated_at] : t \in task}

\* session_manager.py session_exists
session_exists(session_id) == {\E c \in Committed(chats) : c.session_id = session_id}

\* session_manager.py get_session_info
get_session_info(session_id) ==
    LET chat == {c \in Committed(chats) : c.session_id = session_id} IN
    IF chat = {} THEN {None}
    ELSE {[session_id |-> c.session_id,
           task_id |-> (CHOOSE t \in Committed(tasks) : t.id = c.task_id).external_id,
           step_count |-> c.step_count,
           is_active |-> c.is_active,
           message_count |-> Cardinality({m \in Committed(messages) : m.chat_id = c.id}),
           created_at |-> c.created_at,
           updated_at |-> c.updated_at] : c \in chat}

\* list_sessions_for_task, lines 300-308: one record per chat
SessionEntry(chat) ==
    [session_id |-> chat.session_id, step_count |-> chat.step_count,
     is_active |-> chat.is_active, created_at |-> chat.created_at]

\* session_manager.py list_sessions_for_task
list_sessions_for_task(task_id) ==
    LET task == {t \in Committed(tasks) : t.external_id = task_id} IN
    IF task = {} THEN {<<>>}
    ELSE UNION {{[i \in DOMAIN f |-> SessionEntry(f[i])] : f \in ChatRepository_list_by_task(t.id)}
                : t \in task}

\* get_agents_for_task, lines 330-334: one record per agent
AgentEntry(agent) == [type |-> agent.agent_type, model |-> agent.model_name]

RECURSIVE CollectEveryAgent(_, _)
\* A slip: the test against agents_seen left out
CollectEveryAgent(msgs, agents_seen) ==
    IF msgs = <<>> THEN <<>>
    ELSE LET agent == {a \in Committed(agents) : a.id = Head(msgs).agent_id} IN
         IF agent = {}
         THEN CollectEveryAgent(Tail(msgs), agents_seen)
         ELSE <<AgentEntry(CHOOSE a \in agent : TRUE)>>
              \o CollectEveryAgent(Tail(msgs), agents_seen \cup {Head(msgs).agent_id})

RECURSIVE CollectAgents(_, _)
\* get_agents_for_task, lines 325-334: the loop over the messages, keeping
\* the agents not seen yet
CollectAgents(msgs, agents_seen) ==
    IF msgs = <<>> THEN <<>>
    ELSE LET agent == {a \in Committed(agents) : a.id = Head(msgs).agent_id} IN
         IF agent = {} \/ Head(msgs).agent_id \in agents_seen
         THEN CollectAgents(Tail(msgs), agents_seen)
         ELSE <<AgentEntry(CHOOSE a \in agent : TRUE)>>
              \o CollectAgents(Tail(msgs), agents_seen \cup {Head(msgs).agent_id})

RECURSIVE MessagesInOrder(_)
\* The sequences of messages the nested loops of get_agents_for_task may
\* visit: the chats in the order task.chats lists them, each chat's
\* messages in the order chat.messages lists them.
MessagesInOrder(chat_seq) ==
    IF chat_seq = <<>> THEN {<<>>}
    ELSE {msgs \o rest : msgs \in MessageRepository_list_by_chat(Head(chat_seq).id),
                         rest \in MessagesInOrder(Tail(chat_seq))}

\* session_manager.py get_agents_for_task
get_agents_for_task(task_id) ==
    LET task == {t \in Committed(tasks) : t.external_id = task_id} IN
    IF task = {} THEN {<<>>}
    ELSE UNION {UNION {{CollectAgents(msgs, {}) : msgs \in MessagesInOrder(f)}
                       : f \in AnyOrder({c \in Committed(chats) : c.task_id = t.id})}
                : t \in task}

\* A slip: the read stamps the chat it looked at as accessed, which the
\* scope flushes at commit
ReadCallTouching(p, name, sid, tid, results) ==
    /\ pc[p] = "idle"
    /\ \E r \in results, c \in Committed(chats) :
         /\ pc' = [pc EXCEPT ![p] = "commit"]
         /\ op' = [op EXCEPT ![p] = [NoOp EXCEPT !.name = name, !.sid = sid, !.tid = tid]]
         /\ loc' = [loc EXCEPT ![p] = [NoLoc EXCEPT !.ret = r, !.chat = c.id, !.step = c.step_count,
                                                    !.flushed_step = TRUE, !.stamp = now]]
    /\ UNCHANGED <<tasks, chats, messages, agents, action_logs, nextId, now, last, issued, failures>>

\* A read call of the Session Manager: its scope runs the queries, flushes
\* nothing, and commits on exit.
ReadCall(p, name, sid, tid, results) ==
    /\ pc[p] = "idle"
    /\ \E r \in results :
         /\ pc' = [pc EXCEPT ![p] = "commit"]
         /\ op' = [op EXCEPT ![p] = [NoOp EXCEPT !.name = name, !.sid = sid, !.tid = tid]]
         /\ loc' = [loc EXCEPT ![p] = [NoLoc EXCEPT !.ret = r]]
    /\ UNCHANGED <<tasks, chats, messages, agents, action_logs, nextId, now, last, issued, failures>>

get_context_call(p) ==
    \E sid \in SidArgs, include_system \in BOOLEAN :
        ReadCall(p, "get_context", sid, None, get_context(sid, include_system))

get_step_count_call(p) ==
    \E sid \in SidArgs : ReadCall(p, "get_step_count", sid, None, get_step_count(sid))

get_session_info_call(p) ==
    \E sid \in SidArgs : ReadCall(p, "get_session_info", sid, None, get_session_info(sid))

session_exists_call(p) ==
    \E sid \in SidArgs : ReadCall(p, "session_exists", sid, None, session_exists(sid))

get_task_call(p) ==
    \E tid \in TidArgs : ReadCall(p, "get_task", None, tid, get_task(tid))

list_sessions_for_task_call(p) ==
    \E tid \in TidArgs :
        ReadCall(p, "list_sessions_for_task", None, tid, list_sessions_for_task(tid))

get_agents_for_task_call(p) ==
    \E tid \in TidArgs : ReadCall(p, "get_agents_for_task", None, tid, get_agents_for_task(tid))

IsRead(name) ==
    name \in {"get_context", "get_step_count", "get_session_info", "session_exists",
              "get_task", "list_sessions_for_task", "get_agents_for_task"}

----------------------------------------------------------------------------
\* The state after init_db(): empty tables, every caller idle.

Init ==
    /\ tasks = {}
    /\ chats = {}
    /\ messages = {}
    /\ agents = {}
    /\ action_logs = {}
    /\ nextId = [task |-> 1, chat |-> 1, message |-> 1, agent |-> 1, log |-> 1]
    /\ now = 0
    /\ pc = [p \in Procs |-> "idle"]
    /\ op = [p \in Procs |-> NoOp]
    /\ loc = [p \in Procs |-> NoLoc]
    /\ last = NoCall
    /\ issued = [c \in 1..(MaxChats + 1) |-> <<>>]
    /\ failures = 0

\* datetime.utcnow advances to its next reading.  (Only the order of the
\* readings matters, so an instant at which nothing was stamped is skipped.)
Tick ==
    /\ now < MaxClock
    /\ \/ \E m \in messages : m.created_at = now
       \/ \E t \in tasks : now \in {t.updated_at, t.completed_at}
       \/ \E c \in chats : c.updated_at = now
    /\ now' = now + 1
    /\ UNCHANGED <<tasks, chats, messages, agents, action_logs, nextId, pc, op, loc, last, issued, failures>>

\* One step of caller p in a call on tasks and sessions
SessionStep(p) ==
    \/ create_task(p)
    \/ create_session(p)
    \/ get_or_create_session(p)
    \/ ResolveOrCreateTask(p)
    \/ ChatRepository_create(p)

\* One step of caller p in a call that appends a message
MessageStep(p) ==
    \/ add_system_message(p)
    \/ add_user_message(p)
    \/ add_assistant_message(p)
    \/ AgentRepository_get_or_create(p)
    \/ MessageRepository_create(p)
    \/ ChatRepository_increment_step_count(p)

\* One step of caller p in a call that deletes a task
DeleteStep(p) ==
    \/ delete_task(p)
    \/ CommitDelete(p)

\* One step of caller p in a call that deactivates a chat
DeactivateStep(p) ==
    \/ deactivate(p)
    \/ ChatRepository_deactivate(p)

\* One step of caller p in a call that sets a task's status
StatusStep(p) ==
    \/ update_task_status(p)
    \/ TaskRepository_update_status(p)

\* One step of caller p in a read call
ReadStep(p) ==
    \/ get_context_call(p)
    \/ get_step_count_call(p)
    \/ get_session_info_call(p)
    \/ session_exists_call(p)
    \/ get_task_call(p)
    \/ list_sessions_for_task_call(p)
    \/ get_agents_for_task_call(p)

\* The end of any call's scope
ScopeExit(p) ==
    \/ Commit(p)
    \/ StorageFailure(p)
    \/ Ack(p)

Step(p) ==
    \/ SessionStep(p) \/ MessageStep(p) \/ StatusStep(p) \/ DeleteStep(p) \/ DeactivateStep(p)
    \/ ReadStep(p) \/ ScopeExit(p)

\* The whole program: callers run concurrently, their statements interleave.
Next ==
    \/ \E p \in Procs : Step(p)
    \/ \E message_id \in 1..MaxMessages : ActionLogRepository_create(message_id)
    \/ Tick

Spec == Init /\ [][Next]_vars

Quiet == \A q \in Procs : pc[q] = "idle"

\* Tasks and sessions: the calls that create, resolve and delete them, from
\* the empty store; run by concurrent callers (SessionSpec) or one after the
\* other by one caller (SessionSeqSpec).
SessionNext == \E p \in Procs : SessionStep(p) \/ DeleteStep(p) \/ ScopeExit(p)
SessionSpec == Init /\ [][SessionNext]_vars

SessionSeqNext == SessionStep(1) \/ DeleteStep(1) \/ ScopeExit(1)
SessionSeqSpec == Init /\ [][SessionSeqNext]_vars

\* Task status: tasks are created and their status set, by one caller, one
\* call after the other, while the clock runs.
TaskNext ==
    \/ create_task(1) \/ StatusStep(1) \/ ScopeExit(1)
    \/ Quiet /\ Tick
TaskSpec == Init /\ [][TaskNext]_vars

\* Conversations: the calls that append messages, from a store in which
\* create_task() has committed twice, create_session(t1, "s1") once and
\* create_session(t, None) once for t either task.
ConversationInit ==
    /\ tasks = {[id |-> i, external_id |-> uuid4(TaskUuids, i), status |-> PENDING,
                  completed_at |-> Unset, updated_at |-> 0, xid |-> 0] : i \in 1..2}
    /\ \E t \in 1..2 :
         chats = {[id |-> 1, session_id |-> "s1", task_id |-> 1, step_count |-> 0,
                   is_active |-> TRUE, created_at |-> 0, updated_at |-> 0, xid |-> 0],
                  [id |-> 2, session_id |-> ChatSessionId(None, 2), task_id |-> t,
                   step_count |-> 0, is_active |-> TRUE, created_at |-> 0,
                   updated_at |-> 0, xid |-> 0]}
    /\ messages = {}
    /\ agents = {}
    /\ action_logs = {}
    /\ nextId = [task |-> 3, chat |-> 3, message |-> 1, agent |-> 1, log |-> 1]
    /\ now = 1
    /\ pc = [p \in Procs |-> "idle"]
    /\ op = [p \in Procs |-> NoOp]
    /\ loc = [p \in Procs |-> NoLoc]
    /\ last = NoCall
    /\ issued = [c \in 1..(MaxChats + 1) |-> <<>>]
    /\ failures = 0

ConversationNext ==
    \/ \E p \in Procs : MessageStep(p) \/ ScopeExit(p)
    \/ Quiet /\ Tick
ConversationSpec == ConversationInit /\ [][ConversationNext]_vars

ConversationSeqNext ==
    \/ MessageStep(1) \/ DeleteStep(1) \/ ScopeExit(1)
    \/ \E message_id \in 1..MaxMessages : Quiet /\ ActionLogRepository_create(message_id)
    \/ Quiet /\ Tick
ConversationSeqSpec == ConversationInit /\ [][ConversationSeqNext]_vars

\* Reads: one caller appends messages and reads, one call after the other,
\* from the store of ConversationInit, while the clock runs.
ReadNext ==
    \/ MessageStep(1) \/ ReadStep(1) \/ ScopeExit(1)
    \/ Quiet /\ Tick
ReadSpec == ConversationInit /\ [][ReadNext]_vars

\* Step counts: concurrent callers append assistant messages, all of one
\* content and up to one more than MaxMessages, to the store of
\* ConversationInit.
StepNext ==
    \E p \in Procs :
        \/ AddAssistantMessage(p, MaxMessages + 1, {"a"}, {NoConfidence})
        \/ AgentRepository_get_or_create(p)
        \/ MessageRepository_create(p)
        \/ ChatRepository_increment_step_count(p)
        \/ Commit(p)
        \/ Ack(p)
StepSpec == ConversationInit /\ [][StepNext]_vars

\* Scopes: one caller runs the mutators of the repository layer, one call
\* after the other from the empty store, while a second transaction looks
\* on.  Messages are of one content and the status set is COMPLETED.
ScopeNext ==
    \/ create_task(1)
    \/ create_session(1)
    \/ ChatRepository_create(1)
    \/ AddAssistantMessage(1, MaxMessages, {"a"}, {NoConfidence})
    \/ AgentRepository_get_or_create(1)
    \/ MessageRepository_create(1)
    \/ ChatRepository_increment_step_count(1)
    \/ UpdateTaskStatus(1, {COMPLETED})
    \/ TaskRepository_update_status(1)
    \/ DeactivateStep(1)
    \/ DeleteStep(1)
    \/ ScopeExit(1)
ScopeSpec == Init /\ [][ScopeNext]_vars

\* New sessions: one caller creates tasks and sessions and appends
\* assistant messages of one content, one call after the other from the
\* empty store.
NewSessionNext ==
    \/ SessionStep(1)
    \/ AddAssistantMessage(1, MaxMessages, {"a"}, {NoConfidence})
    \/ AgentRepository_get_or_create(1)
    \/ MessageRepository_create(1)
    \/ ChatRepository_increment_step_count(1)
    \/ ScopeExit(1)
NewSessionSpec == Init /\ [][NewSessionNext]_vars

\* Deactivation: concurrent callers deactivate chats and append assistant
\* messages of one content to the store of ConversationInit.
ActivityNext ==
    \E p \in Procs :
        \/ DeactivateStep(p)
        \/ AddAssistantMessage(p, MaxMessages, {"a"}, {NoConfidence})
        \/ AgentRepository_get_or_create(p)
        \/ MessageRepository_create(p)
        \/ ChatRepository_increment_step_count(p)
        \/ ScopeExit(p)
ActivitySpec == ConversationInit /\ [][ActivityNext]_vars

\* Confidence: one caller appends assistant messages of one content with
\* any confidence, one call after the other, to the store of
\* ConversationInit.
ConfidenceNext ==
    \/ AddAssistantMessage(1, MaxMessages, {"a"}, Confidences)
    \/ AgentRepository_get_or_create(1)
    \/ MessageRepository_create(1)
    \/ ChatRepository_increment_step_count(1)
    \/ ScopeExit(1)
ConfidenceSpec == ConversationInit /\ [][ConfidenceNext]_vars

\* Inactive sessions: one caller deactivates chats and appends messages of
\* every role, one call after the other, to the store of ConversationInit.
InactiveNext ==
    \/ MessageStep(1) \/ DeactivateStep(1) \/ ScopeExit(1)
InactiveSpec == ConversationInit /\ [][InactiveNext]_vars

\* Placeholder tasks: concurrent callers run get_or_create_session from the
\* empty store, so that every Task is one created on the fly.
PlaceholderNext ==
    \E p \in Procs :
        \/ get_or_create_session(p)
        \/ ResolveOrCreateTask(p)
        \/ ChatRepository_create(p)
        \/ ScopeExit(p)
PlaceholderSpec == Init /\ [][PlaceholderNext]_vars

----------------------------------------------------------------------------
\* Properties.

\* How many entries of a chat's call log are assistant messages
AssistantCalls(log) == Cardinality({i \in DOMAIN log : log[i].role = ASSISTANT})

\* The committed messages of a chat with role ASSISTANT
AssistantMessages(chat_id) ==
    {m \in Committed(messages) : m.chat_id = chat_id /\ m.role = ASSISTANT}

\* C1: for every sequence of add_*_message calls on a session, get_context
\* returns one {role, content} entry per call that returned, in the order
\* the calls were issued, role and content unchanged - also when two of the
\* messages carry equal creation timestamps.
C1_ContextInIssueOrder ==
    \A c \in Committed(chats) : get_context(c.session_id, TRUE) = {issued[c.id]}

\* C2: after calls issued one after the other, get_step_count of a session
\* is the number of its add_assistant_message calls that returned normally,
\* whatever add_system_message / add_user_message calls came between.
C2_StepCountIsAssistantCalls ==
    \A c \in Committed(chats) : get_step_count(c.session_id) = {AssistantCalls(issued[c.id])}

\* C2's case: a session has taken two assistant messages, one call after
\* the other, and get_step_count reads 2.
C2_TwoAssistantCalls ==
    \E c \in Committed(chats) :
        /\ Len(issued[c.id]) = 2
        /\ AssistantCalls(issued[c.id]) = 2
        /\ get_step_count(c.session_id) = {2}

\* C3: under every interleaving of two add_assistant_message calls on one
\* chat, once both have returned normally both messages are persisted and
\* step_count has grown by two: no increment is lost.
C3_NoLostIncrement ==
    Quiet =>
        \A c \in Committed(chats) :
            /\ Cardinality(AssistantMessages(c.id)) = AssistantCalls(issued[c.id])
            /\ c.step_count = AssistantCalls(issued[c.id])

\* C4: in every reachable state there is at most one Agent row per agent
\* type, also when two calls that found no Agent of the type run at once.
C4_OneAgentPerType ==
    \A a, b \in Committed(agents) : a.agent_type = b.agent_type => a.id = b.id

\* C6: in every committed state a chat's step_count and its ASSISTANT
\* messages agree: no message is persisted without its increment, and no
\* increment without its message.
C6_StepCountMatchesMessages ==
    \A c \in Committed(chats) : c.step_count = Cardinality(AssistantMessages(c.id))

\* C5: get_or_create_session called twice in sequence with the same id
\* returns the same session identifier both times, and after the second
\* call exactly one Chat with that session_id exists.
C5_SecondCallReturnsSameSession ==
    \A p \in Procs :
        (/\ pc[p] = "done"
         /\ op[p].name = "get_or_create_session"
         /\ loc[p].outcome = "ok"
         /\ last.name = "get_or_create_session"
         /\ last.sid = op[p].sid)
        => /\ loc[p].ret = last.ret
           /\ Cardinality({c \in Committed(chats) : c.session_id = op[p].sid}) = 1

\* C7: once TaskRepository.delete has found the task and the enclosing
\* scope has ended (the store itself not failing), the task, its chats and
\* their messages are gone - also when a message had action logs.
C7_DeletedTaskLeavesNothing ==
    \A p \in Procs :
        (/\ pc[p] = "done"
         /\ op[p].name = "delete_task"
         /\ loc[p].task # 0
         /\ loc[p].outcome # "StorageFailure")
        => /\ \A t \in tasks : t.id # loc[p].task
           /\ ChatsOf(loc[p].task) = {}
           /\ \A m \in messages : \E c \in chats : c.id = m.chat_id

\* C8: an add_*_message call whose session_id resolves to no Chat fails
\* with session-not-found and leaves every table as it was: no Message, no
\* Agent, no step_count change.
C8_UnknownSessionFailsUnchanged ==
    [][\A p \in Procs :
         (/\ pc[p] = "idle"
          /\ pc'[p] # "idle"
          /\ IsAdd(op'[p].name)
          /\ \A c \in Committed(chats) : c.session_id # op'[p].sid)
         => /\ pc'[p] = "done"
            /\ loc'[p].outcome = "SessionNotFound"
            /\ UNCHANGED <<tasks, chats, messages, agents, action_logs>>]_vars

\* C8's case: an add_*_message call on the id of a session that existed and
\* was deleted with its task has failed with session-not-found.
C8_FailedOnDeletedSession ==
    \E p \in Procs :
        /\ pc[p] = "done"
        /\ IsAdd(op[p].name)
        /\ op[p].sid = "s1"
        /\ loc[p].outcome = "SessionNotFound"

\* The chats a step commits
NewChats == Committed(chats)' \ Committed(chats)

\* The tasks a step commits
NewTasks == Committed(tasks)' \ Committed(tasks)

\* The call of p ends in this step
Ends(p, name) == pc[p] # "done" /\ pc'[p] = "done" /\ op'[p].name = name

\* create_session with a task_id that resolves to no Task fails with
\* task-not-found and creates no Chat (the first half of C9, shared by the
\* statement as written and the statement as checked).
TaskNotFoundCreatesNoChat(p) ==
    /\ (/\ pc[p] = "idle"
        /\ pc'[p] # "idle"
        /\ op'[p].name = "create_session"
        /\ \A t \in Committed(tasks) : t.external_id # op'[p].tid)
       => /\ pc'[p] = "done"
          /\ loc'[p].outcome = "TaskNotFound"
    /\ (Ends(p, "create_session") /\ loc'[p].outcome = "TaskNotFound")
       => /\ pc[p] = "idle"
          /\ \A t \in Committed(tasks) : t.external_id # op'[p].tid
          /\ NewChats = {}

\* The call of p returns the session id of the one Chat it created, a Chat
\* bound to the Task that task_id names.
CreatedOneChat(p) ==
    /\ loc'[p].outcome = "ok"
    /\ \E c \in NewChats :
         /\ NewChats = {c}
         /\ c.session_id = loc'[p].ret
         /\ \E t \in Committed(tasks)' : t.id = c.task_id /\ t.external_id = op'[p].tid
         /\ \A d \in Committed(chats)' : d.session_id = c.session_id => d = c

C10_PlaceholderTaskAndChat ==
    [][\A p \in Procs :
         /\ op'[p].name = "get_or_create_session" => loc'[p].outcome # "TaskNotFound"
         /\ (/\ Ends(p, "get_or_create_session")
             /\ pc[p] # "idle"
             /\ \A t \in Committed(tasks) : t.external_id # op'[p].tid
             /\ loc'[p].outcome # "StorageFailure")
            => /\ loc'[p].outcome = "ok"
               /\ loc'[p].ret = op'[p].sid
               /\ \E t \in NewTasks, c \in NewChats :
                    /\ NewTasks = {t}
                    /\ NewChats = {c}
                    /\ c.task_id = t.id
                    /\ c.session_id = op'[p].sid]_vars

\* C11: when a Chat with session_id exists, get_or_create_session returns
\* its session id whatever task_id is, and changes nothing: no Task is
\* created, and no Chat's task binding, step_count, is_active or messages
\* change.
C11_ExistingSessionReturnedUnchanged ==
    [][\A p \in Procs :
         (/\ pc[p] = "idle"
          /\ pc'[p] # "idle"
          /\ op'[p].name = "get_or_create_session"
          /\ \E c \in Committed(chats) : c.session_id = op'[p].sid)
         => /\ pc'[p] = "done"
            /\ loc'[p].outcome = "ok"
            /\ loc'[p].ret = op'[p].sid
            /\ UNCHANGED <<tasks, chats, messages, agents, action_logs, nextId>>]_vars

\* C11's case: get_or_create_session has returned an existing session for a
\* task_id that is not the task of the Chat (another task, or no task).
C11_ReturnedForAnotherTask ==
    \E p \in Procs, c \in Committed(chats), t \in Committed(tasks) :
        /\ pc[p] = "done"
        /\ op[p].name = "get_or_create_session"
        /\ loc[p].outcome = "ok"
        /\ loc[p].task = 0
        /\ c.session_id = op[p].sid
        /\ t.id = c.task_id
        /\ t.external_id # op[p].tid

\* C12: no step of an add_system_message or add_user_message call changes
\* the step_count of any Chat.
C12_SystemUserKeepStepCount ==
    [][\A p \in Procs :
         (/\ pc'[p] # pc[p]
          /\ {op[p].name, op'[p].name} \cap {"add_system_message", "add_user_message"} # {})
         => /\ {c.id : c \in chats'} = {c.id : c \in chats}
            /\ \A c \in chats, d \in chats' : c.id = d.id => d.step_count = c.step_count]_vars

\* C12's case: a user message has been appended to a session after an
\* assistant message, and step_count is still 1.
C12_UserAfterAssistant ==
    \E c \in Committed(chats) :
        /\ Len(issued[c.id]) = 2
        /\ issued[c.id][1].role = ASSISTANT
        /\ issued[c.id][2].role = USER
        /\ c.step_count = 1

\* C13: when add_assistant_message(session, content, agent_type,
\* model_name) returns normally, its Message is linked to an Agent whose
\* agent_type and model_name are the ones given, whether the call created
\* the Agent or found it.
C13_LinkedAgentMatchesTypeAndModel ==
    [][\A p \in Procs :
         (/\ pc[p] = "commit"
          /\ pc'[p] = "done"
          /\ op[p].name = "add_assistant_message"
          /\ loc'[p].outcome = "ok")
         => \E m \in Committed(messages)', a \in Committed(agents)' :
              /\ m.id = loc[p].msg
              /\ a.id = m.agent_id
              /\ a.agent_type = op[p].agent_type
              /\ a.model_name = op[p].model_name]_vars

\* C14: a Message references an Agent if and only if its role is ASSISTANT,
\* and the Agent it references exists.
C14_AgentIffAssistant ==
    \A m \in messages :
        /\ m.agent_id # 0 <=> m.role = ASSISTANT
        /\ m.agent_id # 0 => \E a \in agents : a.id = m.agent_id /\ a.xid \in {0, m.xid}

\* C14's case: a session holds a committed assistant message, linked to a
\* committed Agent, and a committed user message, linked to none.
C14_AssistantAndUserMessages ==
    \E m, n \in Committed(messages) :
        /\ m.chat_id = n.chat_id
        /\ m.role = ASSISTANT
        /\ \E a \in Committed(agents) : a.id = m.agent_id
        /\ n.role = USER
        /\ n.agent_id = 0

\* An entry of a context that is no system message
NotSystem(entry) == entry.role # SYSTEM

\* C15: in every state, what get_context(session_id, include_system=false)
\* returns is what get_context(session_id, include_system=true) returns
\* with the SYSTEM entries removed and the other entries in the same order.
C15_FilteredContextKeepsOrder ==
    \A c \in Committed(chats) :
        \A without \in get_context(c.session_id, FALSE), with \in get_context(c.session_id, TRUE) :
            without = SelectSeq(with, NotSystem)

\* The step leaves every table as it was
TablesUnchanged == UNCHANGED <<tasks, chats, messages, agents, action_logs>>

\* C16: get_context on a session_id that resolves to no Chat returns the
\* empty sequence, raises no error (the store itself not failing), and
\* leaves every table unchanged: it creates no Chat and no Task.
C16_UnknownSessionEmptyContext ==
    [][\A p \in Procs :
         (/\ pc'[p] # pc[p]
          /\ pc[p] \in {"idle", "commit"}
          /\ op'[p].name = "get_context"
          /\ \A c \in Committed(chats) : c.session_id # op'[p].sid)
         => /\ TablesUnchanged
            /\ pc[p] = "idle" => pc'[p] = "commit" /\ loc'[p].ret = <<>>
            /\ pc[p] = "commit" =>
                 /\ pc'[p] = "done"
                 /\ loc'[p].outcome \in {"ok", "StorageFailure"}
                 /\ loc'[p].outcome = "ok" => loc'[p].ret = <<>>]_vars

\* C16's case: get_context has returned the empty sequence for a session id
\* no Chat holds, while the store holds the messages of other sessions.
C16_EmptyContextReturned ==
    \E p \in Procs :
        /\ pc[p] = "done"
        /\ op[p].name = "get_context"
        /\ loc[p].outcome = "ok"
        /\ \A c \in Committed(chats) : c.session_id # op[p].sid
        /\ Committed(messages) # {}

\* C17: no step of a read call (get_step_count, get_session_info,
\* list_sessions_for_task, get_agents_for_task, get_context, get_task,
\* session_exists), the commit of its scope included, changes a row of any
\* table.
C17_ReadsChangeNothing ==
    [][\A p \in Procs :
         (pc'[p] # pc[p] /\ (IsRead(op[p].name) \/ IsRead(op'[p].name)))
         => TablesUnchanged]_vars

\* C17's case: the scope of a get_session_info call on a session with
\* step_count 1, last updated at an earlier clock reading, has committed.
C17_ReadCommitted ==
    \E p \in Procs, c \in Committed(chats) :
        /\ pc[p] = "done"
        /\ op[p].name = "get_session_info"
        /\ loc[p].outcome = "ok"
        /\ c.session_id = op[p].sid
        /\ c.step_count = 1
        /\ c.updated_at < now

\* C18: update_task_status with a task_id that resolves to no Task returns
\* False without raising, whatever the status, and changes no Task.
C18_UnknownTaskReturnsFalse ==
    [][\A p \in Procs :
         (/\ pc[p] = "idle"
          /\ pc'[p] # "idle"
          /\ op'[p].name = "update_task_status"
          /\ \A t \in Committed(tasks) : t.external_id # op'[p].tid)
         => /\ pc'[p] = "done"
            /\ loc'[p].outcome = "ok"
            /\ loc'[p].ret = "False"
            /\ TablesUnchanged]_vars

\* C18's case: update_task_status has returned False while the store holds
\* a Task.
C18_ReturnedFalse ==
    \E p \in Procs :
        /\ pc[p] = "done"
        /\ op[p].name = "update_task_status"
        /\ loc[p].outcome = "ok"
        /\ loc[p].ret = "False"
        /\ Committed(tasks) # {}

\* The scope of caller p's update_task_status, which found its Task,
\* commits in this step
StatusCommitted(p) ==
    /\ pc[p] = "commit"
    /\ pc'[p] = "done"
    /\ op[p].name = "update_task_status"
    /\ loc[p].flushed_status
    /\ loc'[p].outcome = "ok"

\* C19: completed_at is set exactly when the status is set to COMPLETED: a
\* Task starts with completed_at unset; update_task_status(t, COMPLETED)
\* stamps completed_at with the current time; an update to another status
\* leaves it as it was; and nothing else changes it - so a Task never set
\* to COMPLETED has completed_at unset.
C19_CompletedAtOnlyOnCompleted ==
    [][/\ \A t \in Committed(tasks)' :
            (\A u \in Committed(tasks) : u.id # t.id) => t.completed_at = Unset
       /\ \A u \in Committed(tasks), t \in Committed(tasks)' :
            (u.id = t.id /\ u.completed_at # t.completed_at)
            => \E p \in Procs :
                 StatusCommitted(p) /\ loc[p].task = u.id /\ loc[p].status = COMPLETED
       /\ \A p \in Procs : StatusCommitted(p) =>
            \E u \in Committed(tasks), t \in Committed(tasks)' :
               /\ u.id = loc[p].task
               /\ t.id = loc[p].task
               /\ t.completed_at = IF loc[p].status = COMPLETED THEN now ELSE u.completed_at]_vars

\* C19's case: a Task was set to COMPLETED after the clock's first reading
\* and to FAILED at a later reading, and keeps the completed_at it had.
C19_CompletedThenMovedOn ==
    \E t \in Committed(tasks) :
        /\ t.status = FAILED
        /\ t.completed_at > 0
        /\ t.updated_at > t.completed_at

\* C20: update_task_status on an existing Task succeeds for every pair of
\* current and new status (the store itself not failing): it returns True
\* and the Task's status is the new status.
C20_AnyStatusFromAny ==
    [][\A p \in Procs :
         /\ (/\ pc[p] = "idle"
             /\ pc'[p] # "idle"
             /\ op'[p].name = "update_task_status"
             /\ \E t \in Committed(tasks) : t.external_id = op'[p].tid)
            => pc'[p] = "status"
         /\ (pc[p] = "status" /\ pc'[p] # "status")
            => pc'[p] = "commit" /\ loc'[p].flushed_status /\ loc'[p].status = loc[p].status
         /\ (pc[p] = "commit" /\ pc'[p] = "done" /\ op[p].name = "update_task_status")
            => /\ loc'[p].outcome \in {"ok", "StorageFailure"}
               /\ loc'[p].outcome = "ok" =>
                    /\ loc'[p].ret = "True"
                    /\ \E t \in Committed(tasks)' :
                         t.id = loc[p].task /\ t.status = loc[p].status]_vars

\* C20's case: a Task that was COMPLETED has been set back to PENDING.
C20_OutOfCompleted ==
    \E t \in Committed(tasks), p \in Procs :
        /\ pc[p] = "done"
        /\ op[p].name = "update_task_status"
        /\ loc[p].outcome = "ok"
        /\ loc[p].task = t.id
        /\ t.status = PENDING
        /\ t.completed_at # Unset

\* C21: create_task ends by returning normally or by a failure of the
\* store; when it returns, exactly one Task has been added, with status
\* PENDING, completed_at unset and no Chats, and the external identifier
\* returned is its own and that of no Task that existed; no existing Task,
\* Chat or Message has changed.
C21_CreateTaskAddsOnePendingTask ==
    [][\A p \in Procs :
         Ends(p, "create_task") =>
            /\ loc'[p].outcome \in {"ok", "StorageFailure"}
            /\ loc'[p].outcome = "ok" =>
                 /\ \E t \in NewTasks :
                      /\ NewTasks = {t}
                      /\ t.status = PENDING
                      /\ t.completed_at = Unset
                      /\ ChatsOf(t.id)' = {}
                      /\ t.external_id = loc'[p].ret
                 /\ \A u \in Committed(tasks) : u.external_id # loc'[p].ret
                 /\ Committed(tasks) \subseteq Committed(tasks)'
                 /\ UNCHANGED <<chats, messages>>
            /\ loc'[p].outcome # "ok" => Committed(tasks)' = Committed(tasks)]_vars

\* C21's case: create_task has returned the id of a second Task while the
\* first Task owns a Chat.
C21_SecondTaskCreated ==
    \E p \in Procs, t, u \in Committed(tasks) :
        /\ pc[p] = "done"
        /\ op[p].name = "create_task"
        /\ loc[p].outcome = "ok"
        /\ loc[p].ret = t.external_id
        /\ u.id # t.id
        /\ \E c \in Committed(chats) : c.task_id = u.id
        /\ \A c \in chats : c.task_id # t.id

\* C22: a Chat's step_count never decreases: across every step of every
\* operation, a Chat that exists before and after the step has a
\* step_count greater than or equal to the one it had.
C22_StepCountNeverDecreases ==
    [][\A c \in Committed(chats), d \in Committed(chats)' :
         c.id = d.id => d.step_count >= c.step_count]_vars

\* No two committed Chats hold the same session_id
OneChatPerSessionId ==
    \A c, d \in Committed(chats) : c.session_id = d.session_id => c.id = d.id

\* C23: session identifiers are unique in every reachable state: under
\* every interleaving of create_session / get_or_create_session calls that
\* supply a session_id, at most one Chat with that session_id is committed,
\* and every call that returns normally returns the session_id it was given.
C23_OneChatPerSuppliedId ==
    /\ OneChatPerSessionId
    /\ \A p \in Procs :
         (/\ pc[p] = "done"
          /\ op[p].name \in {"create_session", "get_or_create_session"}
          /\ op[p].sid # None
          /\ loc[p].outcome = "ok")
         => loc[p].ret = op[p].sid

\* C24: no Session Manager operation returns an internal autoincrement key
\* to its caller: a call that returns normally returns no Message key, and
\* what create_task, create_session and get_or_create_session return is
\* the external_id of a Task or the session_id of a Chat.
C24_NoInternalKeyReturned ==
    \A p \in Procs :
        (pc[p] = "done" /\ loc[p].outcome = "ok") =>
            /\ loc[p].msg = 0
            /\ op[p].name = "create_task" =>
                 \E t \in Committed(tasks) : t.external_id = loc[p].ret
            /\ op[p].name \in {"create_session", "get_or_create_session"} =>
                 \E c \in Committed(chats) : c.session_id = loc[p].ret

\* The rows of every table that transaction q sees
Seen(q) ==
    <<Visible(q, tasks), Visible(q, chats), Visible(q, messages), Visible(q, agents)>>

\* The scope of caller p commits in this step
ScopeCommits(p) == pc[p] = "commit" /\ pc'[p] = "done" /\ loc'[p].outcome = "ok"

\* Transaction p holds nothing flushed: no row and no UPDATE
NothingFlushed(p) ==
    /\ \A r \in tasks \cup chats \cup messages \cup agents : r.xid # p
    /\ ~loc[p].flushed_step /\ ~loc[p].flushed_status /\ ~loc[p].flushed_active

\* C25: the repository mutators never commit: a step of caller p changes
\* what another transaction sees only when it is the commit of p's scope,
\* and when the scope ends by raising, after any number of mutator calls,
\* nothing of what they flushed is left to persist.
C25_MutatorsNeverCommit ==
    [][\A p \in Procs :
         /\ (pc'[p] # pc[p] /\ ~ScopeCommits(p)) =>
               \A q \in Procs \ {p} : Seen(q)' = Seen(q)
         /\ (pc[p] # "done" /\ pc'[p] = "done") => NothingFlushed(p)']_vars

\* C25's case: the scope of an add_assistant_message call was rolled back
\* after AgentRepository.get_or_create and MessageRepository.create had each
\* flushed a row: both keys were drawn, neither row is left.
C25_RolledBackAfterFlush ==
    \E p \in Procs :
        /\ pc[p] = "done"
        /\ op[p].name = "add_assistant_message"
        /\ loc[p].outcome = "StorageFailure"
        /\ nextId.agent = 2 /\ agents = {}
        /\ nextId.message = 2 /\ messages = {}
        /\ \E c \in Committed(chats) : c.session_id = op[p].sid /\ c.step_count = 0

\* The scope of caller p ends in this step
ScopeEnds(p) == pc[p] # "done" /\ pc'[p] = "done"

\* C26: every get_session scope follows the protocol.  When the body has
\* completed, the scope commits what the body flushed, unless the commit
\* raises; when the body or the commit raises, the scope rolls back what
\* the body flushed, commits nothing, and the call ends with that error,
\* never normally; either way the session is left holding nothing.
C26_CommitOrRollbackAndRaise ==
    [][\A p \in Procs : ScopeEnds(p) =>
         /\ NothingFlushed(p)'
         /\ loc'[p].outcome = "ok" =>
              /\ pc[p] \in {"idle", "commit"}
              /\ failures' = failures
              /\ \A r \in tasks : r.xid = p => [r EXCEPT !.xid = 0] \in tasks'
              /\ \A r \in chats : r.xid = p => [r EXCEPT !.xid = 0] \in chats'
         /\ loc'[p].outcome # "ok" =>
              /\ tasks' = Rollback(p, tasks)
              /\ chats' = Rollback(p, chats)
         /\ pc[p] \in {"task", "chat"} => loc'[p].outcome = "IntegrityError"
         /\ (pc[p] = "idle" /\ op'[p].name = "create_session") =>
              loc'[p].outcome = "TaskNotFound"
         /\ failures' # failures => loc'[p].outcome = "StorageFailure"]_vars

\* C26's case: two get_or_create_session calls ran at once for a new
\* session and an unknown task; one committed, the other's insert of the
\* Chat raised after its placeholder Task was flushed, and that Task is gone.
C26_RolledBackPlaceholder ==
    \E p, q \in Procs :
        /\ pc[p] = "done" /\ pc[q] = "done"
        /\ op[p].name = "get_or_create_session" /\ op[q].name = "get_or_create_session"
        /\ loc[p].outcome = "ok"
        /\ loc[q].outcome = "IntegrityError"
        /\ nextId.task = 3
        /\ Cardinality(tasks) = 1

\* C27: every Chat that create_session or get_or_create_session creates
\* starts with step_count 0, is_active true and no messages: right after
\* the call get_step_count returns 0, get_context returns the empty
\* sequence and get_session_info reports is_active true, message_count 0.
C27_NewChatStartsEmpty ==
    [][\A p \in Procs :
         (/\ ScopeEnds(p)
          /\ op'[p].name \in {"create_session", "get_or_create_session"}
          /\ loc'[p].outcome = "ok")
         => /\ \A c \in NewChats :
                 /\ c.step_count = 0
                 /\ c.is_active
                 /\ \A m \in messages' : m.chat_id # c.id
                 /\ get_step_count(c.session_id)' = {0}
                 /\ get_context(c.session_id, TRUE)' = {<<>>}
                 /\ \A info \in get_session_info(c.session_id)' :
                      /\ info.is_active
                      /\ info.message_count = 0
                      /\ info.step_count = 0
            /\ pc[p] = "commit" => \E c \in NewChats : c.session_id = loc'[p].ret]_vars

\* C27's case: get_or_create_session has created a second session while
\* the first holds an assistant message and step_count 1.
C27_CreatedBesideUsedSession ==
    \E p \in Procs, c, d \in Committed(chats) :
        /\ pc[p] = "done"
        /\ op[p].name = "get_or_create_session"
        /\ loc[p].outcome = "ok"
        /\ loc[p].task # 0
        /\ loc[p].ret = c.session_id
        /\ c.step_count = 0
        /\ d.id # c.id
        /\ d.step_count = 1
        /\ \E m \in Committed(messages) : m.chat_id = d.id

\* C28: a Chat's is_active flag changes only when the scope of a
\* ChatRepository.deactivate on that Chat commits, and only from true to
\* false; that commit leaves every step_count and every message as they
\* were and leaves the Chat inactive; no other step changes is_active, and
\* an inactive Chat never becomes active again.
C28_OnlyDeactivateClearsIsActive ==
    [][/\ \A c \in Committed(chats), d \in Committed(chats)' :
            c.id = d.id =>
               /\ ~c.is_active => ~d.is_active
               /\ d.is_active # c.is_active =>
                    \E p \in Procs :
                       ScopeCommits(p) /\ op[p].name = "deactivate" /\ loc[p].chat = c.id
       /\ \A p \in Procs :
            (ScopeCommits(p) /\ op[p].name = "deactivate") =>
               /\ \A d \in Committed(chats)' : d.id = loc[p].chat => ~d.is_active
               /\ \A c \in chats, d \in chats' : c.id = d.id => d.step_count = c.step_count
               /\ messages' = messages]_vars

\* C28's case: a session that took two assistant messages is inactive with
\* step_count 2, beside a session still active.
C28_InactiveWithSteps ==
    \E c, d \in Committed(chats) :
        /\ ~c.is_active
        /\ c.step_count = 2
        /\ Cardinality({m \in Committed(messages) : m.chat_id = c.id}) = 2
        /\ d.is_active

\* C29: Agents are never deleted: across every step, the deletion of a Task
\* whose Messages reference the Agent included, every committed Agent row
\* stays as it is, so the Agent of every remaining Message exists.
C29_AgentsOnlyGrow ==
    [][/\ Committed(agents) \subseteq Committed(agents)'
       /\ \A m \in Committed(messages)' :
            m.agent_id # 0 => \E a \in Committed(agents)' : a.id = m.agent_id]_vars

\* C29's case: a Task has been deleted with every Message there was, and
\* the Agent those Messages referenced is still there.
C29_AgentOutlivesMessages ==
    \E p \in Procs :
        /\ pc[p] = "done"
        /\ op[p].name = "delete_task"
        /\ loc[p].outcome = "ok"
        /\ loc[p].ret = "True"
        /\ nextId.message > 1
        /\ messages = {}
        /\ Committed(agents) # {}

\* C30: Messages are immutable and never reassigned: across every step a
\* committed Message keeps its role, content, Agent reference and Chat (the
\* row stays as it is), or is removed, and then by the commit of a delete
\* of the Task that owns its Chat.
C30_MessagesImmutable ==
    [][\A m \in Committed(messages) :
         \/ m \in Committed(messages)'
         \/ /\ \A n \in messages' : n.id # m.id
            /\ \E p \in Procs, c \in chats :
                 /\ ScopeCommits(p)
                 /\ op[p].name = "delete_task"
                 /\ c.id = m.chat_id
                 /\ c.task_id = loc[p].task
                 /\ \A t \in tasks' : t.id # loc[p].task]_vars

\* C30's case: of two Messages committed to the Chats of two Tasks (the
\* store never failed), one went with its Task and the other is still there.
C30_OneRemovedOneKept ==
    \E p \in Procs :
        /\ pc[p] = "done"
        /\ op[p].name = "delete_task"
        /\ loc[p].outcome = "ok"
        /\ loc[p].ret = "True"
        /\ failures = 0
        /\ nextId.message = 3
        /\ Cardinality(Committed(messages)) = 1

\* C31: sessions are isolated: no step of an add_*_message call on a
\* session changes the step_count or the context (with or without system
\* messages) of any other session, of the same Task or of another, under
\* every interleaving of the callers.
C31_OtherSessionsUntouched ==
    [][\A p \in Procs :
         (pc'[p] # pc[p] /\ (IsAdd(op[p].name) \/ IsAdd(op'[p].name))) =>
            \A b \in Committed(chats) :
               b.id \notin {loc[p].chat, loc'[p].chat} =>
                  /\ \E d \in Committed(chats)' : d.id = b.id /\ d.step_count = b.step_count
                  /\ get_context(b.session_id, TRUE)' = get_context(b.session_id, TRUE)
                  /\ get_context(b.session_id, FALSE)' = get_context(b.session_id, FALSE)]_vars

\* C31's case: two callers have appended at once to two sessions of one
\* Task, an assistant message to one and a user message to the other.
C31_TwoSessionsOfOneTask ==
    \E p, q \in Procs, a, b \in Committed(chats) :
        /\ p # q
        /\ pc[p] = "done" /\ pc[q] = "done"
        /\ op[p].name = "add_assistant_message" /\ op[q].name = "add_user_message"
        /\ loc[p].outcome = "ok" /\ loc[q].outcome = "ok"
        /\ op[p].sid = a.session_id /\ op[q].sid = b.session_id
        /\ a.id # b.id
        /\ a.task_id = b.task_id
        /\ a.step_count = 1 /\ b.step_count = 0
        /\ Len(issued[a.id]) = 1 /\ Len(issued[b.id]) = 1

\* C32: in every reachable state the confidence of each persisted Message
\* is absent or within [0.0, 1.0]: add_assistant_message with a confidence
\* outside that range persists no Message that carries it.
C32_ConfidenceInRange ==
    \A m \in Committed(messages) :
        m.confidence = NoConfidence \/ m.confidence[1] \in 0..10

\* The committed Agents that a Message in a Chat of the Task references
AgentsOfTask(task_id) ==
    {a \in Committed(agents) :
        \E c \in Committed(chats), m \in Committed(messages) :
            c.task_id = task_id /\ m.chat_id = c.id /\ m.agent_id = a.id}

\* C33: get_agents_for_task(task_id) returns exactly the Agents that a
\* Message in a Chat of that Task references, each of them once however
\* many messages and chats it appears in, and no Agent whose messages are
\* all in other Tasks; for a task_id that resolves to no Task it returns
\* the empty list.
C33_AgentsOfTaskOnce ==
    /\ \A t \in Committed(tasks) :
         \A r \in get_agents_for_task(t.external_id) :
            /\ Len(r) = Cardinality(AgentsOfTask(t.id))
            /\ AsSet(r) = {AgentEntry(a) : a \in AgentsOfTask(t.id)}
    /\ get_agents_for_task(UnknownTaskId) = {<<>>}

\* C33's case: get_agents_for_task has returned one Agent for a Task in
\* whose two Chats that Agent has a message each, while the other Task has
\* no Chat.
C33_OneAgentInTwoChats ==
    \E p \in Procs, t \in Committed(tasks) :
        /\ pc[p] = "done"
        /\ op[p].name = "get_agents_for_task"
        /\ loc[p].outcome = "ok"
        /\ op[p].tid = t.external_id
        /\ Len(loc[p].ret) = 1
        /\ Cardinality(AgentsOfTask(t.id)) = 1
        /\ \A c \in Committed(chats) :
             /\ c.task_id = t.id
             /\ \E m \in Committed(messages) : m.chat_id = c.id /\ m.agent_id # 0

\* C34: the Task that get_or_create_session(session_id, task_id) creates on
\* the fly has a freshly generated external identifier, not task_id: after
\* the call task_id still resolves to no Task (get_task returns None,
\* list_sessions_for_task the empty list), so a later call with the same
\* unresolved task_id creates another Task, distinct from every Task there
\* is.
C34_PlaceholderHasFreshId ==
    [][\A p \in Procs :
         (/\ Ends(p, "get_or_create_session")
          /\ pc[p] = "commit"
          /\ loc'[p].outcome = "ok"
          /\ \A u \in Committed(tasks) : u.external_id # op'[p].tid)
         => /\ \E t \in NewTasks :
                 /\ NewTasks = {t}
                 /\ t.external_id # op'[p].tid
                 /\ \A u \in Committed(tasks) : u.id # t.id /\ u.external_id # t.external_id
            /\ \A u \in Committed(tasks)' : u.external_id # op'[p].tid
            /\ get_task(op[p].tid)' = {None}
            /\ list_sessions_for_task(op[p].tid)' = {<<>>}]_vars

\* C34's case: get_or_create_session has been called twice with the same
\* unresolved task_id and two session ids: there are two Tasks, each
\* owning one of the two Chats.
C34_TwoPlaceholders ==
    \E p \in Procs, t, u \in Committed(tasks), c, d \in Committed(chats) :
        /\ pc[p] = "done"
        /\ op[p].name = "get_or_create_session"
        /\ op[p].tid = UnknownTaskId
        /\ loc[p].outcome = "ok"
        /\ t.id # u.id
        /\ t.external_id # u.external_id
        /\ c.task_id = t.id /\ d.task_id = u.id
        /\ c.session_id # d.session_id
        /\ d.session_id = loc[p].ret

\* C35: a Task that get_or_create_session created on the fly is committed
\* only by the commit of that call, together with the Chat it was created
\* for; when the call fails after creating the Task - the insert of the
\* Chat violating the uniqueness of session_id - the Task is rolled back
\* with it.
C35_PlaceholderCommittedWithItsChat ==
    [][/\ \A t \in NewTasks :
            \E p \in Procs, c \in NewChats :
               /\ Ends(p, "get_or_create_session")
               /\ loc'[p].outcome = "ok"
               /\ c.task_id = t.id
               /\ c.session_id = loc'[p].ret
       /\ \A p \in Procs :
            (Ends(p, "get_or_create_session") /\ loc'[p].outcome # "ok") =>
               /\ NewTasks = {}
               /\ \A t \in tasks' : t.xid # p]_vars

\* C35's case: of two concurrent get_or_create_session calls for one new
\* session and an unresolved task, the second failed on the insert of its
\* Chat; two Task keys and two Chat keys were drawn, and the one Task left
\* is committed and owns the one Chat.
C35_LoserLeavesNoTask ==
    \E p \in Procs :
        /\ pc[p] = "done"
        /\ op[p].name = "get_or_create_session"
        /\ loc[p].outcome = "IntegrityError"
        /\ loc[p].task # 0
        /\ failures = 0
        /\ nextId.task = 3 /\ nextId.chat = 3
        /\ \E t \in Committed(tasks), c \in Committed(chats) :
             tasks = {t} /\ chats = {c} /\ c.task_id = t.id /\ c.session_id = op[p].sid

\* C36: create_session with a supplied session_id that already belongs to
\* a Chat fails on the insert and changes nothing: no second Chat is
\* created, and the existing Chat keeps its task binding, step_count,
\* is_active and messages (every table is left as it was).
C36_DuplicateSessionIdChangesNothing ==
    [][\A p \in Procs :
         (/\ pc[p] = "chat"
          /\ pc'[p] # "chat"
          /\ op[p].name = "create_session"
          /\ \E c \in Committed(chats) : c.session_id = op[p].sid)
         => /\ pc'[p] = "done"
            /\ loc'[p].outcome = "IntegrityError"
            /\ TablesUnchanged
            /\ Cardinality({c \in chats' : c.session_id = op[p].sid}) = 1]_vars

\* C36's case: create_session has failed on a session_id whose Chat has
\* counted a step and holds a message; that Chat is the only one with the
\* session_id.
C36_DuplicateOfUsedSession ==
    \E p \in Procs, c \in Committed(chats) :
        /\ pc[p] = "done"
        /\ op[p].name = "create_session"
        /\ loc[p].outcome = "IntegrityError"
        /\ c.session_id = op[p].sid
        /\ c.step_count = 1
        /\ \E m \in Committed(messages) : m.chat_id = c.id
        /\ \A d \in chats : d.session_id = c.session_id => d = c

\* C37: message appends do not depend on the Chat's active flag: on a
\* session whose Chat has been deactivated, add_system_message,
\* add_user_message and add_assistant_message still find the Chat, end
\* normally unless the store fails, commit their message, which then
\* appears in get_context, and leave the Chat inactive;
\* add_assistant_message still adds one to step_count, the other two leave
\* it alone.
C37_AppendsIgnoreIsActive ==
    [][\A p \in Procs :
         /\ (/\ pc[p] = "idle"
             /\ pc'[p] # "idle"
             /\ IsAdd(op'[p].name)
             /\ \E c \in Committed(chats) : c.session_id = op'[p].sid /\ ~c.is_active)
            => pc'[p] # "done"
         /\ \A c \in Committed(chats) :
              (/\ ScopeEnds(p)
               /\ IsAdd(op[p].name)
               /\ c.id = loc[p].chat
               /\ ~c.is_active)
              => /\ loc'[p].outcome \in {"ok", "StorageFailure"}
                 /\ loc'[p].outcome = "ok" =>
                      /\ \E m \in Committed(messages)' \ Committed(messages) :
                           /\ m.chat_id = c.id
                           /\ m.role = RoleOf(op[p].name)
                           /\ m.content = op[p].content
                           /\ \A r \in get_context(c.session_id, TRUE)' :
                                \E i \in DOMAIN r : r[i] = ContextEntry(m)
                      /\ \E d \in Committed(chats)' :
                           /\ d.id = c.id
                           /\ ~d.is_active
                           /\ d.step_count = c.step_count
                                + (IF op[p].name = "add_assistant_message" THEN 1 ELSE 0)
                           /\ get_step_count(c.session_id)' = {d.step_count}]_vars

\* C37's case: the one caller's latest call, an add_assistant_message on a
\* Chat deactivated by an earlier call, has returned: the Chat is inactive,
\* has step_count 1 and holds the assistant message beside a message of
\* another role.
C37_AssistantOnInactiveChat ==
    \E c \in Committed(chats), p \in Procs :
        /\ pc[p] = "done"
        /\ op[p].name = "add_assistant_message"
        /\ loc[p].outcome = "ok"
        /\ op[p].sid = c.session_id
        /\ ~c.is_active
        /\ c.step_count = 1
        /\ \E m, n \in Committed(messages) :
             /\ m.chat_id = c.id /\ n.chat_id = c.id
             /\ m.role = ASSISTANT /\ n.role # ASSISTANT

\* C38: read operations never fail on unknown identifiers (the store itself
\* not failing) and never create state: for a session_id that resolves to
\* no Chat, get_step_count returns 0, get_session_info None and
\* session_exists False; for a task_id that resolves to no Task, get_task
\* returns None and list_sessions_for_task the empty list; no table
\* changes; so get_step_count reads the same for an unknown session as for
\* a session with no assistant messages.
C38_ReadsOfUnknownIds ==
    [][/\ \A p \in Procs :
            /\ (/\ pc[p] = "idle"
                /\ pc'[p] # "idle"
                /\ IsRead(op'[p].name)
                /\ \A c \in Committed(chats) : c.session_id # op'[p].sid
                /\ \A t \in Committed(tasks) : t.external_id # op'[p].tid)
               => /\ pc'[p] = "commit"
                  /\ TablesUnchanged
                  /\ op'[p].name = "get_step_count" => loc'[p].ret = 0
                  /\ op'[p].name = "get_session_info" => loc'[p].ret = None
                  /\ op'[p].name = "session_exists" => loc'[p].ret = FALSE
                  /\ op'[p].name = "get_task" => loc'[p].ret = None
                  /\ op'[p].name = "list_sessions_for_task" => loc'[p].ret = <<>>
            /\ (/\ pc[p] = "commit"
                /\ pc'[p] # "commit"
                /\ IsRead(op[p].name)
                /\ \A c \in Committed(chats) : c.session_id # op[p].sid
                /\ \A t \in Committed(tasks) : t.external_id # op[p].tid)
               => /\ pc'[p] = "done"
                  /\ TablesUnchanged
                  /\ loc'[p].outcome \in {"ok", "StorageFailure"}
                  /\ loc'[p].outcome = "ok" => loc'[p].ret = loc[p].ret
       /\ \A c \in Committed(chats), sid \in SessionIds :
            (/\ AssistantMessages(c.id) = {}
             /\ \A d \in Committed(chats) : d.session_id # sid)
            => get_step_count(c.session_id) = get_step_count(sid)]_vars

\* C38's case: get_step_count has returned 0 for a session_id no Chat
\* holds, while one session holds a user message and no assistant message
\* and another has step_count 1.
C38_UnknownReadsLikeUnused ==
    \E p \in Procs, c, d \in Committed(chats) :
        /\ pc[p] = "done"
        /\ op[p].name = "get_step_count"
        /\ loc[p].outcome = "ok"
        /\ loc[p].ret = 0
        /\ \A e \in Committed(chats) : e.session_id # op[p].sid
        /\ AssistantMessages(c.id) = {}
        /\ \E m \in Committed(messages) : m.chat_id = c.id /\ m.role = USER
        /\ d.step_count = 1

====
